---- MODULE Spec2Model ----
(***************************************************************************)
(* gait: the TODO-to-issue pipeline of src/gait/ai_pr.py                   *)
(* (create_linear_issue, process_todos, the part of handle_ai_pr that      *)
(* consumes its result) and the tracker client of src/gait/linear_client.py*)
(*                                                                         *)
(* Text is modelled as sequences of one-character strings, so that the     *)
(* regular expressions, strip/lstrip/rstrip, slicing, split and join of    *)
(* the source are computed character by character.                         *)
(***************************************************************************)
EXTENDS Integers, Sequences, FiniteSets, TLC

(***************************************************************************)
(* Bounds of the model                                                     *)
(***************************************************************************)
\* longest diff, in lines
MaxLines == 3
\* most create_issue calls made on one LinearClient object
MaxClientCalls == 2

(***************************************************************************)
(* Characters and Python string primitives                                 *)
(***************************************************************************)
NL == "\n"
\* the characters the model's lines use among those \s matches
Whitespace == {" ", "\t", NL}
\* [A-Z]
Upper == {"A","B","C","D","E","F","G","H","I","J","K","L","M",
          "N","O","P","Q","R","S","T","U","V","W","X","Y","Z"}
\* \d
Digit == {"0","1","2","3","4","5","6","7","8","9"}
DigitChars == <<"0","1","2","3","4","5","6","7","8","9">>

\* s[n:]
Drop(s, n) == SubSeq(s, n + 1, Len(s))

\* s.startswith(p)
StartsWith(s, p) == /\ Len(s) >= Len(p)
                    /\ SubSeq(s, 1, Len(p)) = p

\* c in s
Contains(s, c) == \E k \in 1..Len(s) : s[k] = c

\* number of leading characters of s, from position k on, that are in set
RECURSIVE Run(_, _, _)
Run(s, k, set) == IF k <= Len(s) /\ s[k] \in set
                  THEN 1 + Run(s, k + 1, set)
                  ELSE 0

\* number of trailing characters of s that are in set
RECURSIVE RunBack(_, _)
RunBack(s, set) == IF Len(s) > 0 /\ s[Len(s)] \in set
                   THEN 1 + RunBack(SubSeq(s, 1, Len(s) - 1), set)
                   ELSE 0

\* s.lstrip(chars)
LStrip(s, set) == Drop(s, Run(s, 1, set))
\* s.rstrip(chars)
RStrip(s, set) == SubSeq(s, 1, Len(s) - RunBack(s, set))
\* s.strip()
Strip(s) == RStrip(LStrip(s, Whitespace), Whitespace)

\* sep.join(parts), for a one-character separator
RECURSIVE Join(_, _)
Join(parts, sep) == IF Len(parts) = 0 THEN <<>>
                    ELSE IF Len(parts) = 1 THEN parts[1]
                    ELSE parts[1] \o <<sep>> \o Join(Tail(parts), sep)

\* s.split(sep), for a one-character separator: always at least one part
RECURSIVE SplitFrom(_, _, _)
SplitFrom(s, sep, cur) ==
    IF Len(s) = 0 THEN <<cur>>
    ELSE IF s[1] = sep THEN <<cur>> \o SplitFrom(Tail(s), sep, <<>>)
    ELSE SplitFrom(Tail(s), sep, Append(cur, s[1]))
Split(s, sep) == SplitFrom(s, sep, <<>>)

\* str(n) for n >= 0
RECURSIVE IntToStr(_)
IntToStr(n) == IF n < 10 THEN <<DigitChars[n + 1]>>
               ELSE IntToStr(n \div 10) \o <<DigitChars[(n % 10) + 1]>>

\* abs(n)
Abs(n) == IF n < 0 THEN 0 - n ELSE n

(***************************************************************************)
(* Python's None, kept apart from every string (the empty one included)    *)
(***************************************************************************)
None == <<"None">>
\* (mutant) `is not None` in place of truthiness: "" counts as a value
Truthy_NotNone(v) == v # None
\* the truth value Python gives a str-or-None
Truthy(v) == v # None /\ v # <<>>

(***************************************************************************)
(* The patterns of process_todos                                           *)
(***************************************************************************)
TodoWord == <<"T","O","D","O">>

\* length of the comment opener (?:#|//) at position p of line, 0 if none
OpenerLen(line, p) ==
    IF p <= Len(line) /\ line[p] = "#" THEN 1
    ELSE IF p + 1 <= Len(line) /\ line[p] = "/" /\ line[p + 1] = "/" THEN 2
    ELSE 0

\* position of the first ")" of line at or after k, 0 if none
RECURSIVE FirstClose(_, _)
FirstClose(line, k) == IF k > Len(line) THEN 0
                       ELSE IF line[k] = ")" THEN k
                       ELSE FirstClose(line, k + 1)

NoMatch == [matched |-> FALSE, context |-> None, text |-> <<>>]

\* re.search(todo_pattern, line) with
\*   todo_pattern = ^\+\s*(?:#|//)\s*TODO(?:\(([^)]*)\))?:\s+(.+)$
\* context is group(1) (None when the group took no part), text is group(2)
todo_pattern(line) ==
    IF Len(line) = 0 \/ line[1] # "+" THEN NoMatch
    ELSE
    LET p == 2 + Run(line, 2, Whitespace)
        ol == OpenerLen(line, p)
        t == p + ol + Run(line, p + ol, Whitespace)
        u == t + 4
        hasGroup == /\ u <= Len(line)
                    /\ line[u] = "("
                    /\ FirstClose(line, u + 1) # 0
        close == FirstClose(line, u + 1)
        c == IF hasGroup THEN close + 1 ELSE u
        ws == Run(line, c + 1, Whitespace)
        rest == Drop(line, c + ws)
    IN  IF \/ ol = 0
           \/ t + 3 > Len(line)
           \/ SubSeq(line, t, t + 3) # TodoWord
           \/ c > Len(line)
           \/ line[c] # ":"
           \/ ws = 0
           \/ (rest = <<>> /\ ws = 1)
        THEN NoMatch
        ELSE [matched |-> TRUE,
              context |-> IF hasGroup THEN SubSeq(line, u + 1, close - 1) ELSE None,
              \* \s+ gives its last character back to .+ when nothing follows it
              text    |-> IF rest = <<>> THEN <<line[Len(line)]>> ELSE rest]

\* (mutant) \d in place of \d+
issue_id_pattern_OneDigit(s) ==
    LET letters == Run(s, 1, Upper)
    IN  /\ letters >= 2
        /\ Len(s) = letters + 2
        /\ s[letters + 1] = "-"
        /\ s[letters + 2] \in Digit

\* re.match(issue_id_pattern, s) with issue_id_pattern = ^[A-Z]{2,}-\d+$
issue_id_pattern(s) ==
    LET letters == Run(s, 1, Upper)
        digits == Run(s, letters + 2, Digit)
    IN  /\ letters >= 2
        /\ letters + 1 <= Len(s)
        /\ s[letters + 1] = "-"
        /\ digits >= 1
        /\ letters + 1 + digits = Len(s)

\* (mutant) the marker alone, the indentation lost
indent_of_MarkerOnly(line) == SubSeq(line, 1, 1)

\* re.match(r'^\+\s*', line).group(), for a line that starts with "+"
indent_of(line) == SubSeq(line, 1, 1 + Run(line, 2, Whitespace))

\* '#' if '#' in line else '//'
comment_symbol(line) == IF Contains(line, "#") THEN <<"#">> ELSE <<"/", "/">>

\* (mutant) the identifier written after the colon, not as the context
new_line_of_IdInText(line, issue_id, comment) ==
    indent_of(line) \o comment_symbol(line) \o <<" ">> \o TodoWord
        \o <<":", " ", "(">> \o issue_id \o <<")", " ">> \o comment

\* f"{indent}{comment_symbol} TODO({issue_id}): {comment}"
new_line_of(line, issue_id, comment) ==
    indent_of(line) \o comment_symbol(line) \o <<" ">> \o TodoWord \o <<"(">>
        \o issue_id \o <<")", ":", " ">> \o comment

\* the path a header line names: line[6:], less one leading "b/"
header_file(line) ==
    LET f == Drop(line, 6)
    IN  IF StartsWith(f, <<"b", "/">>) THEN Drop(f, 2) ELSE f

(***************************************************************************)
(* The diffs the model runs on.  A line is written down by its parts and   *)
(* rendered to text; the program only ever sees the text.                  *)
(***************************************************************************)
NoParts == [indent |-> <<>>, opener |-> <<>>, gap |-> <<>>, hasCtx |-> FALSE,
            ctx |-> <<>>, sep |-> <<>>]
Todo(indent, opener, gap, hasCtx, ctx, sep, text) ==
    [kind |-> "todo", indent |-> indent, opener |-> opener, gap |-> gap,
     hasCtx |-> hasCtx, ctx |-> ctx, sep |-> sep, text |-> text]
\* a "+++ b/<path>" header: text is <path>
Header(path) == [kind |-> "header", text |-> path] @@ NoParts
\* any other line: text is the whole line
Other(text) == [kind |-> "other", text |-> text] @@ NoParts

HashSym == <<"#">>
Slashes == <<"/", "/">>
Sp == <<" ">>

TodoShapes ==
    { Todo(<<" ", " ">>, HashSym, Sp, FALSE, <<>>, Sp, <<"f","i","x">>),
      Todo(<<>>, HashSym, Sp, FALSE, <<>>, Sp, <<"a">>),
      Todo(<<"\t">>, Slashes, Sp, FALSE, <<>>, Sp, <<"r","e">>),
      Todo(<<>>, Slashes, Sp, FALSE, <<>>, Sp, <<"s","e","e"," ","#","3">>),
      Todo(<<" ">>, HashSym, Sp, TRUE, <<"E","N","G","-","1","2">>, Sp, <<"o","k">>),
      Todo(<<" ">>, HashSym, <<>>, TRUE, <<"E","-","1">>, <<" ", " ">>, <<"x"," "," ">>) }

HeaderShapes ==
    { Header(<<"a">>), Header(<<"b","/","c">>), Header(<<>>) }

OtherShapes ==
    { Other(<<"-","#"," ","T","O","D","O",":"," ","f","i","x">>),
      Other(<<"+","x"," ","#"," ","T","O","D","O",":"," ","y">>) }

Shapes == TodoShapes \cup HeaderShapes \cup OtherShapes

Render(r) ==
    CASE r.kind = "header" -> <<"+","+","+"," ","b","/">> \o r.text
      [] r.kind = "other"  -> r.text
      [] r.kind = "todo"   ->
            <<"+">> \o r.indent \o r.opener \o r.gap \o TodoWord
                \o (IF r.hasCtx THEN <<"(">> \o r.ctx \o <<")">> ELSE <<>>)
                \o <<":">> \o r.sep \o r.text

LinePool == { Render(r) : r \in Shapes }
\* the parts each line of the pool was written from
ShapeMap == [l \in LinePool |-> CHOOSE r \in Shapes : Render(r) = l]
\* a line that is not of the pool (one the rewriter produced, when its
\* output is fed back) has no parts
ShapeOf(line) == IF line \in LinePool THEN ShapeMap[line] ELSE Other(line)

InputDiffs == UNION { [1..n -> LinePool] : n \in 1..MaxLines }

\* the file (as the diff names it) that owns line k of ls: the path of the
\* last header before it, None before any header
RECURSIVE OwnerOf(_, _)
OwnerOf(ls, k) ==
    IF k = 0 THEN None
    ELSE IF ShapeOf(ls[k]).kind = "header" THEN ShapeOf(ls[k]).text
    ELSE OwnerOf(ls, k - 1)

\* the lines of ls added to file path, as the file holds them
RECURSIVE AddedTo(_, _, _)
AddedTo(ls, path, k) ==
    IF k > Len(ls) THEN <<>>
    ELSE (IF /\ ShapeOf(ls[k]).kind # "header"
             /\ StartsWith(ls[k], <<"+">>)
             /\ OwnerOf(ls, k) = path
          THEN <<Tail(ls[k]) \o <<NL>>>>
          ELSE <<>>) \o AddedTo(ls, path, k + 1)

\* the working tree the diff was taken from: every file the diff names
\* holds the lines the diff adds to it
WorkingTree(ls) ==
    LET paths == { ShapeOf(ls[k]).text :
                     k \in { j \in 1..Len(ls) : ShapeOf(ls[j]).kind = "header" } }
                 \ { <<>> }
    IN  [p \in paths |-> AddedTo(ls, p, 1)]

\* the tracker configuration: which of the three settings .env provides
\* and the key of the team that team_id names, which the tracker puts in
\* front of the number of every issue of the team
FullEnv == [api_key |-> TRUE, team_id |-> TRUE, project_id |-> TRUE,
            team_key |-> <<"E", "N", "G">>]
EnvConfigs == { FullEnv,
                [FullEnv EXCEPT !.team_key = <<"E", "2">>],
                [FullEnv EXCEPT !.api_key = FALSE],
                [FullEnv EXCEPT !.team_id = FALSE],
                [FullEnv EXCEPT !.project_id = FALSE] }
\* the per-process key of Python's str hash
HashSeeds == {0, 1}
Modes == { [test_mode |-> TRUE, env |-> FullEnv, seed |-> h] : h \in HashSeeds }
         \cup { [test_mode |-> FALSE, env |-> e, seed |-> 0] : e \in EnvConfigs }

(***************************************************************************)
(* hash(title): Python keys its str hash per process, so the value is a    *)
(* function of the key and the text; it is signed.  Modelled as a keyed    *)
(* polynomial hash of 16 bits.                                             *)
(***************************************************************************)
Alphabet == <<" ", "#", "3", "a", "e", "f", "i", "k", "o", "r", "s", "x", "y",
              "(", ")", "-", "0", "1", "2", "4", "5", "6", "7", "8", "9",
              "E", "G", "N", "S", "T">>
Ord(c) == CHOOSE k \in 1..Len(Alphabet) : Alphabet[k] = c

RECURSIVE PolyHash(_, _)
PolyHash(s, acc) == IF s = <<>> THEN acc
                    ELSE PolyHash(Tail(s), (acc * 31 + Ord(s[1])) % 65536)

PyHash(seed, s) ==
    IF s = <<>> THEN 0
    ELSE ((PolyHash(s, 7 + seed * 7919) * (2 * seed + 1)) % 65536) - 32768

(***************************************************************************)
(* create_linear_issue                                                     *)
(***************************************************************************)
EngPrefix == <<"E", "N", "G", "-">>

\* what client.execute(mutation) does when it is reached: the tracker
\* creates the issue, answers with GraphQL errors (TransportQueryError:
\* authorization, invalid team or project), or the transport fails
\* (connection error, server error: some other exception).  The identifier
\* of a created issue is <team key>-<number>
RemoteOutcomes == {"ok", "query_error", "transport_error"}

\* (mutant) the test-mode identifier taken from hash(title) % 1000, abs() lost
create_linear_issue_NoAbs(title, tm, e, seed, remote, fresh) ==
    IF tm
    THEN [ret |-> EngPrefix \o IntToStr(PyHash(seed, title) % 1000),
          raised |-> FALSE, net |-> 0, reads |-> 0]
    ELSE IF ~e.api_key \/ ~e.team_id \/ ~e.project_id
    THEN [ret |-> None, raised |-> FALSE, net |-> 0, reads |-> 1]
    ELSE CASE remote = "ok" ->
                [ret |-> e.team_key \o <<"-">> \o IntToStr(fresh),
                 raised |-> FALSE, net |-> 1, reads |-> 1]
           [] remote = "query_error" ->
                [ret |-> None, raised |-> FALSE, net |-> 2, reads |-> 1]
           [] OTHER ->
                [ret |-> None, raised |-> TRUE, net |-> 1, reads |-> 1]

\* create_linear_issue(title, test_mode) run with configuration e, hash key
\* seed, the remote answering `remote` and handing out issue number `fresh`.
\*   ret    the value returned (None for Python's None)
\*   raised an exception left the function
\*   net    the client.execute calls made
\*   reads  the configuration was loaded
create_linear_issue(title, tm, e, seed, remote, fresh) ==
    IF tm
    THEN [ret |-> EngPrefix \o IntToStr(Abs(PyHash(seed, title)) % 1000),
          raised |-> FALSE, net |-> 0, reads |-> 0]
    ELSE IF ~e.api_key \/ ~e.team_id \/ ~e.project_id
    THEN [ret |-> None, raised |-> FALSE, net |-> 0, reads |-> 1]
    ELSE CASE remote = "ok" ->
                [ret |-> e.team_key \o <<"-">> \o IntToStr(fresh),
                 raised |-> FALSE, net |-> 1, reads |-> 1]
           [] remote = "query_error" ->
                \* except TransportQueryError: print, list the teams, return None
                [ret |-> None, raised |-> FALSE, net |-> 2, reads |-> 1]
           [] OTHER ->
                \* no handler for any other exception
                [ret |-> None, raised |-> TRUE, net |-> 1, reads |-> 1]

\* whether the call reaches client.execute
ReachesRemote(tm, e) == ~tm /\ e.api_key /\ e.team_id /\ e.project_id

(***************************************************************************)
(* State                                                                   *)
(***************************************************************************)
VARIABLES
    diff,           \* process_todos' argument: the diff text
    test_mode,      \* process_todos' argument
    env,            \* the tracker configuration in .env
    hashseed,       \* the process's hash key
    files,          \* the working tree: path -> lines, each with its "\n"
    nextId,         \* the number the tracker gives the next issue
    lines,          \* diff.split('\n')
    i,              \* position of the for loop over lines
    current_file,
    updated_lines,
    todos,
    file_changes,   \* insertion-ordered dict: sequence of [path, changes]
    fi,             \* position of the loop over file_changes.items()
    calls,          \* the create_linear_issue calls made so far
    netCalls,       \* client.execute calls made so far
    envReads,       \* times the configuration was loaded
    fileOps,        \* the working-tree files opened so far, and how it went
    result,         \* the diff text process_todos returned, None before
    pass,           \* 1, or 2 when the run is of a diff process_todos returned
    prevCalls,      \* the create_linear_issue calls of the run before
    pc              \* where the run is

vars == <<diff, test_mode, env, hashseed, files, nextId, lines, i,
          current_file, updated_lines, todos, file_changes, fi, calls,
          netCalls, envReads, fileOps, result, pass, prevCalls, pc>>

\* what a run of process_todos is started with
inputs == <<diff, test_mode, env, hashseed, lines, pass, prevCalls>>

\* a run of process_todos (from handle_ai_pr when test_mode is off)
PipelineInit ==
    /\ \E ls \in InputDiffs :
          /\ diff = Join(ls, NL)
          /\ files = WorkingTree(ls)
    /\ lines = Split(diff, NL)
    /\ \E m \in Modes :
          /\ test_mode = m.test_mode
          /\ env = m.env
          /\ hashseed = m.seed
    /\ nextId = 42
    /\ i = 1
    /\ current_file = None
    /\ updated_lines = <<>>
    /\ todos = <<>>
    /\ file_changes = <<>>
    /\ fi = 1
    /\ calls = <<>>
    /\ netCalls = 0
    /\ envReads = 0
    /\ fileOps = <<>>
    /\ result = None
    /\ pass = 1
    /\ prevCalls = <<>>
    /\ pc = "scan"

(***************************************************************************)
(* process_todos: one action per way through the body of the line loop     *)
(***************************************************************************)
InLoop == pc = "scan" /\ i <= Len(lines)

\* todo_match = re.search(todo_pattern, line): the same for every occurrence of
\* a line, so it is looked up for the lines of the pool and computed for any
\* other line
TodoMatches == [l \in LinePool |-> todo_pattern(l)]
todo_match(line) ==
    IF line \in LinePool THEN TodoMatches[line] ELSE todo_pattern(line)

\* line.startswith('+++')
ScanHeader ==
    /\ InLoop
    /\ StartsWith(lines[i], <<"+", "+", "+">>)
    /\ current_file' = header_file(lines[i])
    /\ updated_lines' = Append(updated_lines, lines[i])
    /\ i' = i + 1
    /\ UNCHANGED <<inputs, files, nextId, todos, file_changes, fi, calls,
                   netCalls, envReads, fileOps, result, pc>>

\* not line.startswith('+')
ScanNotAdded ==
    /\ InLoop
    /\ ~StartsWith(lines[i], <<"+">>)
    /\ updated_lines' = Append(updated_lines, lines[i])
    /\ i' = i + 1
    /\ UNCHANGED <<inputs, files, nextId, current_file, todos, file_changes,
                   fi, calls, netCalls, envReads, fileOps, result, pc>>

IsAdded(line) == StartsWith(line, <<"+">>) /\ ~StartsWith(line, <<"+", "+", "+">>)

\* not todo_match or not current_file
ScanNotTodo ==
    /\ InLoop
    /\ IsAdded(lines[i])
    /\ ~todo_match(lines[i]).matched \/ ~Truthy(current_file)
    /\ updated_lines' = Append(updated_lines, lines[i])
    /\ i' = i + 1
    /\ UNCHANGED <<inputs, files, nextId, current_file, todos, file_changes,
                   fi, calls, netCalls, envReads, fileOps, result, pc>>

\* (mutant) no context is taken for an issue identifier
HasIssueId_Never(context) == FALSE

\* context and re.match(issue_id_pattern, context)
HasIssueId(context) == Truthy(context) /\ issue_id_pattern(context)

ScanResolved ==
    /\ InLoop
    /\ IsAdded(lines[i])
    /\ todo_match(lines[i]).matched
    /\ Truthy(current_file)
    /\ LET m == todo_match(lines[i])
       IN  /\ HasIssueId(m.context)
           /\ todos' = Append(todos, [file |-> current_file, line |-> lines[i],
                                      issue_id |-> m.context,
                                      comment |-> Strip(m.text)])
    /\ updated_lines' = Append(updated_lines, lines[i])
    /\ i' = i + 1
    /\ UNCHANGED <<inputs, files, nextId, current_file, file_changes, fi,
                   calls, netCalls, envReads, fileOps, result, pc>>

\* (mutant) the change put first in the file's list instead of last
AddChange_Prepend(fc, path, change) ==
    IF \E k \in 1..Len(fc) : fc[k].path = path
    THEN [k \in 1..Len(fc) |->
            IF fc[k].path = path
            THEN [fc[k] EXCEPT !.changes = <<change>> \o @]
            ELSE fc[k]]
    ELSE Append(fc, [path |-> path, changes |-> <<change>>])

\* file_changes[current_file].append(change), creating the list if need be
AddChange(fc, path, change) ==
    IF \E k \in 1..Len(fc) : fc[k].path = path
    THEN [k \in 1..Len(fc) |->
            IF fc[k].path = path
            THEN [fc[k] EXCEPT !.changes = Append(@, change)]
            ELSE fc[k]]
    ELSE Append(fc, [path |-> path, changes |-> <<change>>])

\* the TODO has no issue yet: create one, rewrite the line if that worked
ScanCreate ==
    /\ InLoop
    /\ IsAdded(lines[i])
    /\ todo_match(lines[i]).matched
    /\ Truthy(current_file)
    /\ ~HasIssueId(todo_match(lines[i]).context)
    /\ \E remote \in (IF ReachesRemote(test_mode, env)
                      THEN RemoteOutcomes ELSE {"not_called"}) :
        LET line == lines[i]
            comment == Strip(todo_match(line).text)
            r == create_linear_issue(comment, test_mode, env, hashseed,
                                     remote, nextId)
            new_line == new_line_of(line, r.ret, comment)
        IN  /\ calls' = Append(calls, [line |-> i, file |-> current_file,
                                       title |-> comment,
                                       remote |-> remote, ret |-> r.ret,
                                       raised |-> r.raised])
            /\ netCalls' = netCalls + r.net
            /\ envReads' = envReads + r.reads
            /\ nextId' = IF remote = "ok" THEN nextId + 1 ELSE nextId
            /\ IF r.raised
               THEN /\ pc' = "raised"
                    /\ UNCHANGED <<i, updated_lines, todos, file_changes>>
               ELSE /\ pc' = pc
                    /\ i' = i + 1
                    /\ IF Truthy(r.ret)
                       THEN /\ file_changes' =
                                 AddChange(file_changes, current_file,
                                           [old |-> LStrip(line, {"+"}),
                                            new |-> LStrip(new_line, {"+"})])
                            /\ todos' = Append(todos,
                                 [file |-> current_file, line |-> new_line,
                                  issue_id |-> r.ret, comment |-> comment])
                            /\ updated_lines' = Append(updated_lines, new_line)
                       ELSE /\ updated_lines' = Append(updated_lines, line)
                            /\ UNCHANGED <<todos, file_changes>>
    /\ UNCHANGED <<inputs, files, current_file, fi, fileOps, result>>

(***************************************************************************)
(* process_todos: the file synchronisation and the return                  *)
(***************************************************************************)
\* the body of `for line in content`: the line the file gets for `line`
sync_line(line, changes) ==
    LET line_stripped == RStrip(line, {NL})
        hits == { k \in 1..Len(changes) : line_stripped = Strip(changes[k].old) }
    IN  IF hits = {} THEN line
        ELSE LET first == CHOOSE k \in hits : \A j \in hits : k <= j
             IN  changes[first].new \o <<NL>>

\* updated_content for a file holding `content`
sync_content(content, changes) ==
    [k \in 1..Len(content) |-> sync_line(content[k], changes)]

AfterLoop == pc = "scan" /\ i > Len(lines)

\* (mutant) the files are synchronised in test mode too
SyncFile_AnyMode ==
    /\ AfterLoop
    /\ fi <= Len(file_changes)
    /\ file_changes[fi].path \in DOMAIN files
    /\ files' = [files EXCEPT ![file_changes[fi].path] =
                    sync_content(@, file_changes[fi].changes)]
    /\ fileOps' = Append(fileOps, [path |-> file_changes[fi].path,
                                    op |-> "written"])
    /\ fi' = fi + 1
    /\ UNCHANGED <<inputs, nextId, i, current_file, updated_lines, todos,
                   file_changes, calls, netCalls, envReads, result, pc>>

\* one file of file_changes read, rewritten and written back
SyncFile ==
    /\ AfterLoop
    /\ ~test_mode
    /\ fi <= Len(file_changes)
    /\ file_changes[fi].path \in DOMAIN files
    /\ files' = [files EXCEPT ![file_changes[fi].path] =
                    sync_content(@, file_changes[fi].changes)]
    /\ fileOps' = Append(fileOps, [path |-> file_changes[fi].path,
                                    op |-> "written"])
    /\ fi' = fi + 1
    /\ UNCHANGED <<inputs, nextId, i, current_file, updated_lines, todos,
                   file_changes, calls, netCalls, envReads, result, pc>>

\* open() raised (no such file, or one that cannot be read or written):
\* except Exception prints and the loop goes on
SyncFileError ==
    /\ AfterLoop
    /\ ~test_mode
    /\ fi <= Len(file_changes)
    /\ fileOps' = Append(fileOps, [path |-> file_changes[fi].path,
                                    op |-> "error"])
    /\ fi' = fi + 1
    /\ UNCHANGED <<inputs, files, nextId, i, current_file, updated_lines,
                   todos, file_changes, calls, netCalls, envReads, result, pc>>

\* what the synchronisation prints, one message per file it went through:
\* "Updated <count> TODOs in <path>" after writelines, "Error updating
\* <path>" in the except branch; it prints nothing else
sync_messages ==
    [e \in 1..Len(fileOps) |->
        IF fileOps[e].op = "written"
        THEN [kind |-> "updated", path |-> fileOps[e].path,
              count |-> Len(file_changes[e].changes)]
        ELSE [kind |-> "error", path |-> fileOps[e].path, count |-> 0]]

\* (mutant) the returned text ends with a line break
Return_TrailingNewline ==
    /\ AfterLoop
    /\ test_mode \/ fi > Len(file_changes)
    /\ result' = Join(updated_lines, NL) \o <<NL>>
    /\ pc' = "returned"
    /\ UNCHANGED <<inputs, files, nextId, i, current_file, updated_lines,
                   todos, file_changes, fi, calls, netCalls, envReads, fileOps>>

\* return '\n'.join(updated_lines), todos
Return ==
    /\ AfterLoop
    /\ test_mode \/ fi > Len(file_changes)
    /\ result' = Join(updated_lines, NL)
    /\ pc' = "returned"
    /\ UNCHANGED <<inputs, files, nextId, i, current_file, updated_lines,
                   todos, file_changes, fi, calls, netCalls, envReads, fileOps>>

\* process_todos called again, in the same process, on the diff it returned
\* rewritten: every local starts afresh, the working tree and the tracker
\* are as the first run left them
Rerun ==
    /\ pc = "returned"
    /\ pass = 1
    /\ result # diff
    /\ diff' = result
    /\ lines' = Split(result, NL)
    /\ pass' = 2
    /\ prevCalls' = calls
    /\ i' = 1
    /\ current_file' = None
    /\ updated_lines' = <<>>
    /\ todos' = <<>>
    /\ file_changes' = <<>>
    /\ fi' = 1
    /\ calls' = <<>>
    /\ fileOps' = <<>>
    /\ result' = None
    /\ pc' = "scan"
    /\ UNCHANGED <<test_mode, env, hashseed, files, nextId, netCalls, envReads>>

(***************************************************************************)
(* handle_ai_pr, from its call of process_todos(diff) on                   *)
(***************************************************************************)
\* if not todos: print("TODO processing failed"), return 1
HandleNoTodos ==
    /\ pc = "returned"
    /\ ~test_mode
    /\ todos = <<>>
    /\ pc' = "pr_aborted"
    /\ UNCHANGED <<inputs, files, nextId, i, current_file, updated_lines,
                   todos, file_changes, fi, calls, netCalls, envReads, fileOps, result>>

\* otherwise on to generate_pr_content(diff, commits)
HandleGenerate ==
    /\ pc = "returned"
    /\ ~test_mode
    /\ todos # <<>>
    /\ pc' = "generate_pr"
    /\ UNCHANGED <<inputs, files, nextId, i, current_file, updated_lines,
                   todos, file_changes, fi, calls, netCalls, envReads, fileOps, result>>

\* except Exception as e: print, return 1
HandleException ==
    /\ pc = "raised"
    /\ pc' = "pr_error"
    /\ UNCHANGED <<inputs, files, nextId, i, current_file, updated_lines,
                   todos, file_changes, fi, calls, netCalls, envReads, fileOps, result>>

(***************************************************************************)
(* LinearClient, used on its own                                           *)
(***************************************************************************)
TestPrefix == <<"T", "E", "S", "T", "-">>

\* the titles the client is asked to file
ClientTitles == { Strip(r.text) : r \in TodoShapes }

\* LinearClient.create_issue(title), same record as create_linear_issue
client_create_issue(title, tm, e, seed, remote, fresh) ==
    IF tm
    THEN [ret |-> TestPrefix \o IntToStr(Abs(PyHash(seed, title)) % 1000),
          raised |-> FALSE, net |-> 0, reads |-> 0]
    ELSE CASE remote = "ok" ->
                [ret |-> e.team_key \o <<"-">> \o IntToStr(fresh),
                 raised |-> FALSE, net |-> 1, reads |-> 0]
           [] remote = "query_error" ->
                \* except TransportQueryError: print, list_available_teams, None
                [ret |-> None, raised |-> FALSE, net |-> 2, reads |-> 0]
           [] OTHER ->
                [ret |-> None, raised |-> TRUE, net |-> 1, reads |-> 0]

\* a LinearClient is about to be constructed; process_todos is not run
ClientInit ==
    /\ diff = <<>>
    /\ files = <<>>
    /\ \E m \in Modes :
          /\ test_mode = m.test_mode
          /\ env = m.env
          /\ hashseed = m.seed
    /\ lines = <<>>
    /\ nextId = 42
    /\ i = 1
    /\ current_file = None
    /\ updated_lines = <<>>
    /\ todos = <<>>
    /\ file_changes = <<>>
    /\ fi = 1
    /\ calls = <<>>
    /\ netCalls = 0
    /\ envReads = 0
    /\ fileOps = <<>>
    /\ result = None
    /\ pass = 1
    /\ prevCalls = <<>>
    /\ pc = "client_new"

\* LinearClient(test_mode): __init__ and, off test mode, _init_client
ClientConstruct ==
    /\ pc = "client_new"
    /\ IF test_mode
       THEN /\ pc' = "client_ready"
            /\ UNCHANGED <<netCalls, envReads>>
       ELSE /\ envReads' = envReads + 1
            /\ IF ~env.api_key \/ ~env.team_id
               THEN \* raise ValueError
                    /\ pc' = "client_config_error"
                    /\ UNCHANGED netCalls
               ELSE IF ~env.project_id
               THEN \* list_available_teams(), then raise ValueError
                    /\ pc' = "client_config_error"
                    /\ netCalls' = netCalls + 1
               ELSE /\ pc' = "client_ready"
                    /\ UNCHANGED netCalls
    /\ UNCHANGED <<inputs, files, nextId, i, current_file, updated_lines,
                   todos, file_changes, fi, calls, fileOps, result>>

\* client.create_issue(title)
ClientCreateIssue ==
    /\ pc = "client_ready"
    /\ Len(calls) < MaxClientCalls
    /\ \E title \in ClientTitles :
       \E remote \in (IF test_mode THEN {"not_called"} ELSE RemoteOutcomes) :
        LET r == client_create_issue(title, test_mode, env, hashseed,
                                    remote, nextId)
        IN  /\ calls' = Append(calls, [line |-> 0, file |-> None,
                                       title |-> title,
                                       remote |-> remote, ret |-> r.ret,
                                       raised |-> r.raised])
            /\ netCalls' = netCalls + r.net
            /\ envReads' = envReads + r.reads
            /\ nextId' = IF remote = "ok" THEN nextId + 1 ELSE nextId
            /\ pc' = IF r.raised THEN "client_raised" ELSE pc
    /\ UNCHANGED <<inputs, files, i, current_file, updated_lines, todos,
                   file_changes, fi, fileOps, result>>

(***************************************************************************)
(* Specification                                                           *)
(***************************************************************************)
Init == PipelineInit \/ ClientInit

Next ==
    \/ ScanHeader
    \/ ScanNotAdded
    \/ ScanNotTodo
    \/ ScanResolved
    \/ ScanCreate
    \/ SyncFile
    \/ SyncFileError
    \/ Return
    \/ Rerun
    \/ HandleNoTodos
    \/ HandleGenerate
    \/ HandleException
    \/ ClientConstruct
    \/ ClientCreateIssue

Spec == Init /\ [][Next]_vars

(***************************************************************************)
(* Vocabulary of the properties, stated on the parts the input lines were  *)
(* written from rather than on what the program parsed out of them         *)
(***************************************************************************)
\* line k of the diff has been through the loop (of a first run: the
\* properties of single lines are stated on the parts of the pool's lines)
Done == IF pass = 1 THEN 1..Len(updated_lines) ELSE {}
Sh(k) == ShapeOf(lines[k])
\* an added line that is a comment-prefixed TODO
IsTodoLine(k) == Sh(k).kind = "todo"
\* two or more capitals, a hyphen, one or more digits
IsIdShape(s) ==
    \E n \in 2..Len(s) :
        /\ n + 2 <= Len(s)
        /\ \A j \in 1..n : s[j] \in Upper
        /\ s[n + 1] = "-"
        /\ \A j \in (n + 2)..Len(s) : s[j] \in Digit
\* the TODO of line k already names an issue
IsResolvedLine(k) == IsTodoLine(k) /\ Sh(k).hasCtx /\ IsIdShape(Sh(k).ctx)
\* a header naming a path comes before line k
HasOwner(k) == OwnerOf(lines, k) \notin {None, <<>>}
\* the create-issue calls made for line k
CallsAt(k) == { j \in 1..Len(calls) : calls[j].line = k }
\* a TodoMatch for line k that carries the identifier id
Recorded(k, id) ==
    \E j \in 1..Len(todos) : todos[j].line = lines[k] /\ todos[j].issue_id = id

\* C1 (as claimed): every added TODO line whose context token is an issue
\* identifier comes out identical, is recorded as a TodoMatch carrying that
\* token, and has no issue created for it.
C1_AsClaimed ==
    \A k \in Done :
        IsResolvedLine(k) =>
            /\ updated_lines[k] = lines[k]
            /\ Recorded(k, Sh(k).ctx)
            /\ CallsAt(k) = {}

\* C1 (amended): every added TODO line whose context token is an issue
\* identifier comes out identical and has no issue created for it; when it
\* has an owning file it is also recorded as a TodoMatch carrying that token.
C1_Idempotence ==
    \A k \in Done :
        IsResolvedLine(k) =>
            /\ updated_lines[k] = lines[k]
            /\ CallsAt(k) = {}
            /\ HasOwner(k) => Recorded(k, Sh(k).ctx)

C1_Witness ==
    \E k \in Done :
        /\ IsResolvedLine(k)
        /\ HasOwner(k)
        /\ Recorded(k, Sh(k).ctx)
        /\ updated_lines[k] = lines[k]

\* the create-issue calls of process_todos that returned an identifier
Succeeded == { j \in 1..Len(calls) :
                 calls[j].line > 0 /\ calls[j].ret \notin {None, <<>>} }
\* the calls that returned None
Failed == { j \in 1..Len(calls) : calls[j].ret = None /\ ~calls[j].raised }
\* the FileEdits recorded so far, over all files
RECURSIVE NumEdits(_)
NumEdits(fc) == IF fc = <<>> THEN 0 ELSE Len(fc[1].changes) + NumEdits(Tail(fc))
\* text without the whitespace around it
TrimOf(s) ==
    LET ab == CHOOSE ab \in (1..(Len(s) + 1)) \X (0..Len(s)) :
                /\ ab[1] <= ab[2] + 1
                /\ \A j \in 1..Len(s) : (j < ab[1] \/ j > ab[2]) => s[j] \in Whitespace
                /\ ab[1] <= ab[2] => /\ s[ab[1]] \notin Whitespace
                                     /\ s[ab[2]] \notin Whitespace
    IN  SubSeq(s, ab[1], ab[2])
\* the comment symbol by the rule of the rewriter: "#" when the line has
\* one anywhere, else "//"
SymbolRule(k) == IF \E q \in 1..Len(lines[k]) : lines[k][q] = "#"
                 THEN HashSym ELSE Slashes

C3_AsClaimed ==
    \A j \in Failed :
        LET k == calls[j].line
        IN  k \in Done =>
              /\ updated_lines[k] = lines[k]
              /\ NumEdits(file_changes) = Cardinality(Succeeded)
              /\ Recorded(k, None)

\* C4 (as claimed): a rewritten line keeps the comment opener of the line it
\* replaces, "//" or "#", whatever the text of the comment.
C4_AsClaimed ==
    \A j \in Succeeded :
        LET k == calls[j].line
        IN  k \in Done =>
              StartsWith(updated_lines[k],
                         <<"+">> \o Sh(k).indent \o Sh(k).opener \o <<" ">>
                            \o TodoWord)

\* C5: a TODO line that no header naming a file precedes comes out
\* unchanged, has no issue created for it and yields no FileEdit.
C5_NoFileGuard ==
    /\ \A k \in Done :
          IsTodoLine(k) /\ ~HasOwner(k) =>
             /\ updated_lines[k] = lines[k]
             /\ CallsAt(k) = {}
    /\ NumEdits(file_changes) = Cardinality(Succeeded)
    /\ \A e \in 1..Len(file_changes) : file_changes[e].path \notin {None, <<>>}

C5_Witness ==
    /\ \E k \in Done :
          IsTodoLine(k) /\ ~IsResolvedLine(k) /\ OwnerOf(lines, k) = None
    /\ \E k \in Done :
          IsTodoLine(k) /\ ~IsResolvedLine(k) /\ OwnerOf(lines, k) = <<>>

\* the run is one of process_todos, not of a LinearClient on its own
InPipeline == pc \notin {"client_new", "client_ready", "client_config_error",
                         "client_raised"}
\* how many lines of content are exactly l
Count(content, l) == Cardinality({ k \in 1..Len(content) : content[k] = l })

\* C6 (as claimed): when a file that was synchronised held the old line of a
\* FileEdit exactly once, it afterwards holds the new line exactly once and
\* the old line no more, whatever the indentation of the TODO line, and
\* synchronising it again changes nothing.
C6_AsClaimed ==
    \A e \in 1..Len(fileOps) :
        fileOps[e].op = "written" =>
            LET p == file_changes[e].path
                ch == file_changes[e].changes
                before == WorkingTree(lines)[p]
            IN  \A c \in 1..Len(ch) :
                    Count(before, ch[c].old \o <<NL>>) = 1 =>
                        /\ Count(files[p], ch[c].new \o <<NL>>) = 1
                        /\ Count(files[p], ch[c].old \o <<NL>>) = 0
                        /\ sync_content(files[p], ch) = files[p]

\* what is cut off the front of line k: the diff marker, and the indentation
\* too unless it is kept
Cut(k, keepIndent) == IF keepIndent THEN 1 ELSE 1 + Len(Sh(k).indent)

\* the FileEdits the successful calls from j on made for path, in call
\* order: each rewritten line and the line it replaced, with the front cut
RECURSIVE EditsOf(_, _, _)
EditsOf(path, j, keepIndent) ==
    IF j > Len(calls) THEN <<>>
    ELSE (IF j \in Succeeded /\ calls[j].file = path
          THEN LET k == calls[j].line
               IN  <<[old |-> Drop(lines[k], Cut(k, keepIndent)),
                      new |-> Drop(updated_lines[k], Cut(k, keepIndent))]>>
          ELSE <<>>) \o EditsOf(path, j + 1, keepIndent)

\* every successful rewrite has one FileEdit, under its file, in diff order
EditsRecorded(keepIndent) ==
    /\ \A e \in 1..Len(file_changes) :
          file_changes[e].changes = EditsOf(file_changes[e].path, 1, keepIndent)
    /\ \A e, f \in 1..Len(file_changes) :
          file_changes[e].path = file_changes[f].path => e = f
    /\ { file_changes[e].path : e \in 1..Len(file_changes) }
          = { calls[j].file : j \in Succeeded }

\* C7 (as claimed): each successful rewrite appends exactly one FileEdit
\* under the owning file, in diff order, and the pair holds the original and
\* the rewritten comment without the diff marker and without the indentation.
C7_AsClaimed == EditsRecorded(FALSE)

\* C7 (amended): each successful rewrite appends exactly one FileEdit under
\* the owning file, in diff order, and the pair holds the original and the
\* rewritten line without the diff marker but with the indentation.
C7_FileEdits == EditsRecorded(TRUE)

C7_Witness ==
    \E e \in 1..Len(file_changes) :
        /\ Len(file_changes[e].changes) >= 2
        /\ file_changes[e].changes[1] # file_changes[e].changes[2]
        /\ \E c \in 1..Len(file_changes[e].changes) :
              file_changes[e].changes[c].old[1] \in Whitespace

\* C8 (as claimed): a remote call that fails makes the create-issue
\* operation return failure, never raise, and process_todos runs on to its
\* return.
C8_AsClaimed ==
    /\ \A j \in 1..Len(calls) :
          calls[j].remote \in {"query_error", "transport_error"} =>
             ~calls[j].raised /\ calls[j].ret = None
    /\ pc \notin {"raised", "pr_error", "client_raised"}

\* C9 (as claimed): with the API key, the team or the project missing in
\* normal mode, no remote call is made, the diff is returned as it came, and
\* handle_ai_pr goes on to generate the PR instead of returning failure.
C9_AsClaimed ==
    (/\ InPipeline
     /\ ~test_mode
     /\ ~env.api_key \/ ~env.team_id \/ ~env.project_id
     /\ calls # <<>>)
        => /\ netCalls = 0
           /\ pc \in {"returned", "pr_aborted", "generate_pr"} => result = diff
           /\ pc # "pr_aborted"

RewrittenFor(p, k) ==
    \E j \in Succeeded : calls[j].line = k /\ calls[j].file = p

\* C11 (as claimed): once a file has been synchronised, every line of the
\* diff that was rewritten for it is a line of the file, with the identifier
\* the diff has, also when two TODO lines of the file have the same text.
\* Stated for the lines without indentation, which the file comparison of C6
\* does not miss.
C11_AsClaimed ==
    \A e \in 1..Len(fileOps) :
        (pass = 1 /\ fileOps[e].op = "written") =>
            \A k \in Done :
                (RewrittenFor(fileOps[e].path, k) /\ Sh(k).indent = <<>>) =>
                    Count(files[fileOps[e].path],
                          Tail(updated_lines[k]) \o <<NL>>) >= 1

\* C12 (as claimed): after a file is written, every FileEdit new line that
\* the file does not hold is reported by a verification warning for that
\* file; the file stays as written and the next files are still processed.
C12_AsClaimed ==
    \A e \in 1..Len(fileOps) :
        (pass = 1 /\ fileOps[e].op = "written") =>
            LET p == fileOps[e].path
                ch == file_changes[e].changes
            IN  \A c \in 1..Len(ch) :
                    Count(files[p], ch[c].new \o <<NL>>) = 0 =>
                        \E m \in 1..Len(sync_messages) :
                            /\ sync_messages[m].kind = "warning"
                            /\ sync_messages[m].path = p

\* the lines the loop has examined: those it is done with, and the one whose
\* create call raised
Examined ==
    Done \cup (IF pass = 1 /\ pc \in {"raised", "pr_error"} THEN {i} ELSE {})

\* an added TODO line with an owning file and no shape-valid context token
Eligible(k) == IsTodoLine(k) /\ ~IsResolvedLine(k) /\ HasOwner(k)

\* C13: in one run of process_todos the create-issue operation is called
\* exactly once for each examined added TODO line that has an owning file and
\* no shape-valid context, in diff order and one at a time, never for another
\* line and never again for a line whose call failed; a run that returns has
\* examined every line.
C13_ExactlyOnce ==
    (InPipeline /\ pass = 1) =>
        /\ \A j \in 1..Len(calls) :
              calls[j].line \in Examined /\ Eligible(calls[j].line)
        /\ \A k \in Examined : Eligible(k) => Cardinality(CallsAt(k)) = 1
        /\ \A j1, j2 \in 1..Len(calls) :
              j1 < j2 => calls[j1].line < calls[j2].line
        /\ \A j \in 1..Len(calls) :
              calls[j].line \in Done => ~calls[j].raised
        /\ pc \in {"returned", "pr_aborted", "generate_pr"} =>
              Done = 1..Len(lines)

C13_Witness ==
    /\ pass = 1
    /\ pc = "returned"
    /\ \E j1, j2 \in 1..Len(calls) :
          j1 < j2 /\ j1 \in Failed /\ j2 \in Succeeded
    /\ \E k \in Done : ~Eligible(k)

\* the lines of the returned diff text
ResultLines == Split(result, NL)

\* C14: the returned diff has as many lines as the input diff, and every
\* line that is not an added TODO line (header, removed line, added line
\* without a comment-prefixed TODO) is at the same position in it, unchanged,
\* whatever the tracker returned.
C14_PassThrough ==
    /\ (InPipeline /\ pass = 1) =>
          \A k \in Done : ~IsTodoLine(k) => updated_lines[k] = lines[k]
    /\ (pass = 1 /\ pc = "returned") =>
          /\ Len(ResultLines) = Len(lines)
          /\ \A k \in 1..Len(lines) :
                ~IsTodoLine(k) => ResultLines[k] = lines[k]

C14_Witness ==
    /\ pass = 1
    /\ pc = "returned"
    /\ result # diff
    /\ \E k \in Done : Sh(k).kind = "header"
    /\ \E k \in Done : Sh(k).kind = "other" /\ ResultLines[k] = lines[k]

\* C15 (as claimed): the file path recorded for an added line, in the
\* TodoMatch and as the FileEdit key, is the path of the last `+++ b/<path>`
\* header before the line, exactly, for every path.
C15_AsClaimed ==
    (InPipeline /\ pass = 1) =>
        /\ \A t \in 1..Len(todos) :
              \E k \in Done : /\ updated_lines[k] = todos[t].line
                              /\ OwnerOf(lines, k) = todos[t].file
        /\ \A e \in 1..Len(file_changes) :
              \E k \in Done : /\ IsTodoLine(k)
                              /\ OwnerOf(lines, k) = file_changes[e].path

\* C17: with test_mode true process_todos opens, reads and writes no file of
\* the working tree, for any diff, also when it rewrote lines and collected
\* FileEdits; a file operation happens only with test_mode false.
C17_TestModeNoFiles ==
    /\ (InPipeline /\ test_mode) =>
          /\ fileOps = <<>>
          /\ fi = 1
          /\ pass = 1 => files = WorkingTree(lines)
    /\ fileOps # <<>> => ~test_mode

C17_Witness ==
    /\ test_mode
    /\ pass = 1
    /\ pc = "returned"
    /\ result # diff
    /\ todos # <<>>
    /\ \E e \in 1..Len(file_changes) :
          /\ file_changes[e].path \in DOMAIN files
          /\ \E c \in 1..Len(file_changes[e].changes) :
                Count(files[file_changes[e].path],
                      file_changes[e].changes[c].old \o <<NL>>) >= 1

\* the second run did nothing: no create call, no FileEdit, and the diff it
\* returns is the diff it was given
SecondRunIdle ==
    /\ calls = <<>>
    /\ file_changes = <<>>
    /\ pc # "raised"
    /\ pc = "returned" => result = diff

\* C16 (as claimed): if every identifier the tracker returned in the first
\* run has the identifier shape, a run on the diff the first run returned
\* makes no create call, records no FileEdit and returns the same text.
C16_AsClaimed ==
    (/\ pass = 2
     /\ \A j \in 1..Len(prevCalls) :
           prevCalls[j].ret # None => IsIdShape(prevCalls[j].ret))
        => SecondRunIdle

\* C16 (amended): if every create call of the first run returned an
\* identifier, and each has the identifier shape, a run on the diff the first
\* run returned makes no create call, records no FileEdit and returns the
\* same text.
C16_RerunIdempotent ==
    (/\ pass = 2
     /\ \A j \in 1..Len(prevCalls) : IsIdShape(prevCalls[j].ret))
        => SecondRunIdle

C16_Witness ==
    /\ pass = 2
    /\ pc = "returned"
    /\ result = diff
    /\ Len(prevCalls) >= 2
    /\ \A j \in 1..Len(prevCalls) : IsIdShape(prevCalls[j].ret)
    /\ Len(todos) = Len(prevCalls)
    /\ \E k \in 1..Len(lines) : lines[k] \notin LinePool

====
